---- MODULE Spec2Model ----
(***************************************************************************)
(* Model of src/src/lib.rs: ClosestWeb3RpcProviderSelector, a latency      *)
(* table behind a std::sync::Mutex, written by one spawned tokio task      *)
(* (process_response_time_check) and read or cleared by callers through    *)
(* the ClosestWeb3Provider trait.                                          *)
(*                                                                         *)
(* tokio::select! polls its three branches in an order that starts at a    *)
(* branch drawn at random at every poll, the first branch found ready wins *)
(* and the other two futures are dropped: the branch that wins a poll is   *)
(* any of the branches that are ready, and a poll that finds every branch  *)
(* pending leaves the task where it was.  So the task takes one step for   *)
(* each branch that wins, and one for the request a new sweep sends.       *)
(* Callers run on other threads of the runtime, so every step of a caller  *)
(* may fall between two steps of the task.  Every use of the table takes   *)
(* the mutex, so each lock/use/unlock is one atomic step; a panic while    *)
(* the guard is alive poisons the mutex and every later lock().unwrap()    *)
(* panics.                                                                 *)
(***************************************************************************)
EXTENDS Integers, Sequences, FiniteSets, TLC

\* ------------------------------------------------------------------ bounds

\* Longest configured url list.
MaxUrls == 2
\* Largest round trip time, in microseconds, a probe can measure.
MaxMicros == 1

\* ------------------------------------------------------------- environment

\* The endpoints of the environment: "up" always answers without an error
\* field, "down" never answers, "flaky" may do either.
UrlNames == {"up", "down", "flaky"}

\* The caller threads that share one selector.
Callers == {"c1", "c2"}

\* The callers run the same code, so the usage contract is followed for one of
\* them; the other is any concurrent user of the selector.
Observed == "c1"

\* What can come back from one request.
ResponseKinds == {"ok", "transport_error", "unparsable", "rpc_error"}

Responses(url) ==
    IF url = "up" THEN {"ok"}
    ELSE IF url = "down" THEN {"transport_error"}
    ELSE ResponseKinds

\* u128::MAX, the value recorded for a failed probe.  Only its order matters:
\* Duration::as_micros() is at most (2^64 - 1) * 10^6 + 999999 < u128::MAX, so
\* it is any integer above every duration a probe can measure.
U128_MAX == MaxMicros + 1

\* ------------------------------------------------------------ the hash map

\* HashMap::new()
EmptyMap == [x \in {} |-> 0]

\* HashMap::len
MapLen(t) == Cardinality(DOMAIN t)

InsertRemovingFailures(t, k, v) ==
    IF v = U128_MAX
    THEN [x \in (DOMAIN t) \ {k} |-> t[x]]
    ELSE [x \in (DOMAIN t) \cup {k} |-> IF x = k THEN v ELSE t[x]]

InsertUnderFixedKey(t, k, v) ==
    [x \in (DOMAIN t) \cup {"up"} |-> IF x = "up" THEN v ELSE t[x]]

\* HashMap::insert: the entry of k is created or overwritten.
Insert(t, k, v) == [x \in (DOMAIN t) \cup {k} |-> IF x = k THEN v ELSE t[x]]

\* HashMap::clear
Clear(t) == EmptyMap

\* The orders in which HashMap::iter may yield the keys of t (the order of a
\* HashMap is arbitrary).
IterOrders(t) ==
    LET n == MapLen(t)
    IN  {s \in [1..n -> DOMAIN t] : \A i, j \in 1..n : i # j => s[i] # s[j]}

\* Option<&String>
NoneKey == [some |-> FALSE]
SomeKey(k) == [some |-> TRUE, key |-> k]

RECURSIVE MinFold(_, _, _, _)
\* Iterator::min_by_key is a fold that keeps the element seen first unless a
\* later one is strictly smaller.
MinFold(order, t, i, best) ==
    IF i > Len(order) THEN best
    ELSE MinFold(order, t, i + 1,
                 IF t[order[i]] < t[best] THEN order[i] ELSE best)

MaxByKey(order, t) ==
    IF Len(order) = 0 THEN NoneKey
    ELSE SomeKey(CHOOSE k \in DOMAIN t : \A x \in DOMAIN t : t[x] <= t[k])

FirstInOrder(order, t) ==
    IF Len(order) = 0 THEN NoneKey ELSE SomeKey(order[1])

FirstOrDefault(order, t) ==
    IF Len(order) = 0 THEN SomeKey("up")
    ELSE SomeKey(MinFold(order, t, 2, order[1]))

\* binding.iter().min_by_key(|(_, &v)| v): None on an empty map.
MinByKey(order, t) ==
    IF Len(order) = 0 THEN NoneKey
    ELSE SomeKey(MinFold(order, t, 2, order[1]))

\* --------------------------------------------------------------- one probe

\* Result<u128, LibError>
Ok(micros) == [ok |-> TRUE, micros |-> micros]
Err == [ok |-> FALSE]

\* perform_web3_client_version_request: the elapsed time of a response that
\* parses and has no error field, an error otherwise.
perform_web3_client_version_request(kind, elapsed) ==
    IF kind = "ok" THEN Ok(elapsed) ELSE Err

UnwrapOrZero(r, default) == IF r.ok THEN r.micros ELSE 0

\* Result::unwrap_or
UnwrapOr(r, default) == IF r.ok THEN r.micros ELSE default

\* ------------------------------------------------------------------- state

VARIABLES
    urls,           \* the Vec<String> given to init
    table,          \* current_response_time_per_url, the map behind the mutex
    poisoned,       \* the mutex is poisoned
    stopSentBy,     \* the callers whose destroy() has sent on the watch channel
    task,           \* the spawned task: "Running", "Stopped", "Panicked"
    sweepPos,       \* number of urls the sweep of this cycle has recorded
    inflight,       \* positions in urls of the requests that are in flight,
                    \* the sweep having returned Pending
    cpc,            \* where each caller is: "idle", "clearing", "waiting", or
                    \* "dropped" once the selector is dropped
    last,           \* the call that ended last and what it gave
    usage,          \* how the observed caller stands with the usage contract
    readySeen,      \* a caller saw readiness, and destroy() was not called yet
    probeCompleted, \* a request completed, and destroy() was not called yet
    outcome,        \* what the last completed request to each url gave, until
                    \* destroy() is called
    mutex,          \* who holds the lock of the map: "free", "task" or a caller
    tpc,            \* the task: "spawned" (not polled yet), "await" (in the
                    \* select!), "lock" (a request has completed, its result is
                    \* not inserted yet), and step by step "insert", "drop"
    pending,        \* the response_time the task is about to insert
    lpc,            \* each caller, step by step: "idle" or a place in a call
    scan            \* each caller's min_by_key: the order of the iteration, the
                    \* next index, the smallest entry so far and its value

vars == <<urls, table, poisoned, stopSentBy, task, sweepPos, inflight,
          cpc, last, usage, readySeen, probeCompleted, outcome,
          mutex, tpc, pending, lpc, scan>>

schedVars == <<task, sweepPos, inflight>>
callerVars == <<cpc, last, usage, readySeen>>
lockVars == <<mutex, tpc, pending, lpc, scan>>

\* No min_by_key is under way.
NoScan == [order |-> <<>>, i |-> 0, best |-> "", bestv |-> 0]

\* The url lists init can be given: every list, the empty one and
\* repetitions included.
UrlLists == UNION {[1..n -> UrlNames] : n \in 0..MaxUrls}

\* init: an empty map, an unused channel and a task that has been spawned and
\* has sent no request yet.
Init ==
    /\ urls \in UrlLists
    /\ table = EmptyMap
    /\ poisoned = FALSE
    /\ stopSentBy = {}
    /\ task = "Running"
    /\ sweepPos = 0
    /\ inflight = {}
    /\ cpc = [c \in Callers |-> "idle"]
    /\ last = [op |-> "init", val |-> "ok"]
    /\ usage = "fresh"
    /\ readySeen = FALSE
    /\ probeCompleted = FALSE
    /\ outcome = EmptyMap
    /\ mutex = "free"
    /\ tpc = "spawned"
    /\ pending = 0
    /\ lpc = [c \in Callers |-> "idle"]
    /\ scan = [c \in Callers |-> NoScan]

\* ------------------------------------------------------- the spawned task

\* Something was sent on the watch channel.
stopSent == stopSentBy # {}

\* The task owns `receiver` until it returns or panics; Sender::send fails
\* when no receiver is left.
ReceiverAlive == task = "Running"

\* The selector was dropped, and its Sender (interval_handle) with it.
SelectorDropped == \A c \in Callers : cpc[c] = "dropped"

\* receiver.clone() copies the version `receiver` has seen, which stays the
\* initial one because `receiver` itself never awaits changed(); so the clone's
\* changed() is ready as soon as anything was sent, however often.  It is
\* ready too, with an Err that `_ =` matches, once the Sender is dropped.
Changed == stopSent \/ SelectorDropped

\* The task is in the select!: not polled yet, or polled before.
AtAwait == tpc \in {"spawned", "await"}

\* A poll of the select! looks at its branches: at the start of a cycle, or
\* again after the sweep returned Pending.  In between, the sweep is running.
AtSelect == AtAwait /\ (sweepPos = 0 \/ inflight # {})

\* The task is not running on its thread: it has ended, was not polled yet,
\* or has returned Pending with a request in flight.
TaskYielded == task # "Running" \/ tpc = "spawned" \/ inflight # {}

NextCycleKeepingRequests ==
    /\ sweepPos' = 0
    /\ UNCHANGED <<task, inflight>>

\* A branch other than changed() won: the futures of this select! are dropped
\* and the loop polls a new select!, with a new sweep and a new sleep.
NextCycle ==
    /\ sweepPos' = 0
    /\ inflight' = {}
    /\ UNCHANGED task

PollChangedKeepingSweep ==
    /\ task = "Running"
    /\ AtSelect
    /\ Changed
    /\ task' = "Stopped"
    /\ tpc' = "await"
    /\ UNCHANGED <<urls, table, poisoned, stopSentBy, sweepPos, inflight,
                   probeCompleted, outcome>>
    /\ UNCHANGED callerVars
    /\ UNCHANGED <<mutex, pending, lpc, scan>>

\* receiver_clone.changed() is ready and wins the poll: break, and the task
\* returns.
PollChanged ==
    /\ task = "Running"
    /\ AtSelect
    /\ Changed
    /\ task' = "Stopped"
    /\ sweepPos' = 0
    /\ inflight' = {}
    /\ tpc' = "await"
    /\ UNCHANGED <<urls, table, poisoned, stopSentBy, probeCompleted, outcome>>
    /\ UNCHANGED callerVars
    /\ UNCHANGED <<mutex, pending, lpc, scan>>

\* The sweep sends the request to the next url and the request is pending:
\* the sweep returns Pending.
SweepPending ==
    /\ task = "Running"
    /\ AtAwait
    /\ sweepPos < Len(urls)
    /\ sweepPos + 1 \notin inflight
    /\ inflight' = inflight \cup {sweepPos + 1}
    /\ tpc' = "await"
    /\ UNCHANGED <<urls, table, poisoned, stopSentBy, task, sweepPos,
                   probeCompleted, outcome>>
    /\ UNCHANGED callerVars
    /\ UNCHANGED <<mutex, pending, lpc, scan>>

\* perform_web3_client_version_request(&url).await gives its result and
\* unwrap_or(u128::MAX) makes it the response_time; the task goes on to lock().
Completes(kinds) ==
    /\ task = "Running"
    /\ AtAwait
    /\ sweepPos < Len(urls)
    /\ \E kind \in Responses(urls[sweepPos + 1]) \cap kinds,
          elapsed \in 0..MaxMicros :
         LET response == perform_web3_client_version_request(kind, elapsed)
             response_time == UnwrapOr(response, U128_MAX)
         IN  /\ pending' = response_time
             /\ outcome' = IF stopSent THEN outcome
                           ELSE Insert(outcome, urls[sweepPos + 1],
                                       response_time)
    /\ probeCompleted' = ~stopSent
    /\ inflight' = {}
    /\ tpc' = "lock"
    /\ UNCHANGED <<urls, table, poisoned, stopSentBy, task, sweepPos>>
    /\ UNCHANGED callerVars
    /\ UNCHANGED <<mutex, lpc, scan>>

\* The request in flight completes and the sweep is polled.
ResponseArrives ==
    /\ sweepPos + 1 \in inflight
    /\ Completes(ResponseKinds)

\* send() fails in the poll that calls it, before anything is sent (a url
\* that cannot be parsed, for one): the sweep does not return Pending.
ResponseAtOnce ==
    /\ sweepPos + 1 \notin inflight
    /\ Completes({"transport_error"})

\* response_times.lock().unwrap(), insert(url.clone(), response_time) and
\* drop(response_times_map), with no caller inside a call: the result is in
\* the map, or the unwrap() of a poisoned lock ends the task; the for loop
\* goes on to the next url or, after the last one, the sweep completes and
\* wins the select!.
SweepProbe ==
    /\ tpc = "lock"
    /\ tpc' = "await"
    /\ pending' = 0
    /\ IF poisoned
       THEN /\ task' = "Panicked"
            /\ sweepPos' = 0
            /\ inflight' = {}
            /\ table' = table
       ELSE /\ table' = Insert(table, urls[sweepPos + 1], pending)
            /\ IF sweepPos + 1 = Len(urls)
               THEN NextCycle
               ELSE /\ sweepPos' = sweepPos + 1
                    /\ UNCHANGED <<task, inflight>>
    /\ UNCHANGED <<urls, poisoned, stopSentBy, probeCompleted, outcome>>
    /\ UNCHANGED callerVars
    /\ UNCHANGED <<mutex, lpc, scan>>

\* `for url in &urls` over an empty list: the sweep completes in its first
\* poll with no request made, and the loop starts the next select! at once.
SweepEmpty ==
    /\ task = "Running"
    /\ AtAwait
    /\ Len(urls) = 0
    /\ NextCycle
    /\ tpc' = "await"
    /\ UNCHANGED <<urls, table, poisoned, stopSentBy, probeCompleted, outcome>>
    /\ UNCHANGED callerVars
    /\ UNCHANGED <<mutex, pending, lpc, scan>>

\* sleep(checking_interval) has elapsed and wins the poll: the cycle ends and
\* the sweep, with its request in flight, is dropped.
SleepElapsed ==
    /\ task = "Running"
    /\ AtSelect
    /\ NextCycle
    /\ tpc' = "await"
    /\ UNCHANGED <<urls, table, poisoned, stopSentBy, probeCompleted, outcome>>
    /\ UNCHANGED callerVars
    /\ UNCHANGED <<mutex, pending, lpc, scan>>

process_response_time_check ==
    \/ PollChanged
    \/ SweepPending
    \/ ResponseArrives
    \/ ResponseAtOnce
    \/ SweepProbe
    \/ SweepEmpty
    \/ SleepElapsed

\* ---------------------------------------------------------------- callers

\* How the observed caller stands with the usage contract (readiness is
\* confirmed before get_fastest_provider, destroy is called once) after a call
\* `op` of caller c that gave `val`.  "fresh" and "ready" have kept the contract, without and with
\* readiness confirmed, and have not called destroy; "torn" and "torn_ready"
\* are the same after the one destroy call; "misused" has broken the contract;
\* "faulted" has kept it and seen a call panic all the same.  The last two are
\* final.
UsageAfter(c, op, val) ==
    LET u == usage
        torn == u \in {"torn", "torn_ready"}
    IN  IF c # Observed \/ u \in {"misused", "faulted"} THEN u
        ELSE IF op = "get_fastest_provider" /\ u \notin {"ready", "torn_ready"}
        THEN "misused"
        ELSE IF op = "destroy" /\ torn THEN "misused"
        ELSE IF val = "panic" THEN "faulted"
        ELSE IF op = "destroy" THEN "torn"
        ELSE IF op = "get_fastest_provider" THEN u
        ELSE IF val \in {"true", "ok"}
        THEN (IF torn THEN "torn_ready" ELSE "ready")
        ELSE (IF torn THEN "torn" ELSE "fresh")

\* A call of caller c ended: what it gave.
Returned(c, op, val) ==
    /\ last' = [op |-> op, val |-> val]
    /\ usage' = UsageAfter(c, op, val)

\* self.current_response_time_per_url.lock().unwrap().len() > 0
IsReadyValue ==
    IF poisoned THEN "panic"
    ELSE IF MapLen(table) > 0 THEN "true" ELSE "false"

is_ready(c) ==
    /\ cpc[c] = "idle"
    /\ Returned(c, "is_ready", IsReadyValue)
    /\ readySeen' = (~stopSent /\ (readySeen \/ IsReadyValue = "true"))
    /\ UNCHANGED <<urls, table, poisoned, stopSentBy, cpc, probeCompleted, outcome>>
    /\ UNCHANGED schedVars
    /\ UNCHANGED lockVars

\* destroy, first statement: interval_handle.send(()).expect(..).  The send
\* fails when the task has dropped its receiver.
destroy(c) ==
    /\ cpc[c] = "idle"
    /\ IF ReceiverAlive
       THEN /\ stopSentBy' = stopSentBy \cup {c}
            /\ cpc' = [cpc EXCEPT ![c] = "clearing"]
            /\ usage' = IF UsageAfter(c, "destroy", "ok") = "misused"
                         THEN "misused" ELSE usage
            /\ readySeen' = FALSE
            /\ probeCompleted' = FALSE
            /\ outcome' = EmptyMap
            /\ UNCHANGED last
       ELSE /\ Returned(c, "destroy", "panic")
            /\ UNCHANGED <<stopSentBy, cpc, readySeen, probeCompleted, outcome>>
    /\ UNCHANGED <<urls, table, poisoned>>
    /\ UNCHANGED schedVars
    /\ UNCHANGED lockVars

\* destroy, second statement: ...lock().unwrap().clear().
destroy_clear(c) ==
    /\ cpc[c] = "clearing"
    /\ cpc' = [cpc EXCEPT ![c] = "idle"]
    /\ IF poisoned
       THEN /\ Returned(c, "destroy", "panic")
            /\ UNCHANGED table
       ELSE /\ table' = Clear(table)
            /\ Returned(c, "destroy", "ok")
    /\ UNCHANGED <<urls, poisoned, stopSentBy, readySeen, probeCompleted, outcome>>
    /\ UNCHANGED schedVars
    /\ UNCHANGED lockVars

\* get_fastest_provider: the key min_by_key finds, in whatever order the map
\* iterates; unwrap() of None panics with the guard alive, which poisons the
\* mutex.
get_fastest_provider(c) ==
    /\ cpc[c] = "idle"
    /\ IF poisoned
       THEN /\ Returned(c, "get_fastest_provider", "panic")
            /\ UNCHANGED poisoned
       ELSE \E order \in IterOrders(table) :
              LET found == MinByKey(order, table)
              IN  IF found.some
                  THEN /\ Returned(c, "get_fastest_provider", found.key)
                       /\ UNCHANGED poisoned
                  ELSE /\ Returned(c, "get_fastest_provider", "panic")
                       /\ poisoned' = TRUE
    /\ UNCHANGED <<urls, table, stopSentBy, cpc, readySeen, probeCompleted, outcome>>
    /\ UNCHANGED schedVars
    /\ UNCHANGED lockVars

WaitTurnTimingOut(c) ==
    /\ cpc' = [cpc EXCEPT ![c] = IF cpc[c] = "idle" THEN "waiting" ELSE "idle"]
    /\ IF cpc[c] = "idle"
       THEN UNCHANGED <<last, usage>>
       ELSE Returned(c, "wait_until_ready", "ok")
    /\ UNCHANGED <<urls, table, poisoned, stopSentBy, readySeen, probeCompleted, outcome>>
    /\ UNCHANGED schedVars
    /\ UNCHANGED lockVars

\* One turn of the loop of wait_until_ready: break when is_ready(), sleep
\* otherwise.
WaitTurn(c) ==
    /\ IF IsReadyValue = "false"
       THEN /\ cpc' = [cpc EXCEPT ![c] = "waiting"]
            /\ UNCHANGED <<last, usage>>
       ELSE /\ cpc' = [cpc EXCEPT ![c] = "idle"]
            /\ Returned(c, "wait_until_ready",
                        IF IsReadyValue = "true" THEN "ok" ELSE "panic")
    /\ readySeen' = (~stopSent /\ (readySeen \/ IsReadyValue = "true"))
    /\ UNCHANGED <<urls, table, poisoned, stopSentBy, probeCompleted, outcome>>
    /\ UNCHANGED schedVars
    /\ UNCHANGED lockVars

\* wait_until_ready is called: the first turn of its loop.
wait_until_ready(c) ==
    /\ cpc[c] = "idle"
    /\ WaitTurn(c)

\* sleep(Duration::from_millis(10)) has elapsed: the next turn of the loop.
WaitWake(c) ==
    /\ cpc[c] = "waiting"
    /\ WaitTurn(c)

\* The selector is dropped, no call being under way: nothing can be called
\* any more, and the Sender is gone.
DropSelector ==
    /\ \A c \in Callers : cpc[c] = "idle" /\ lpc[c] = "idle"
    /\ cpc' = [c \in Callers |-> "dropped"]
    /\ UNCHANGED <<urls, table, poisoned, stopSentBy, last, usage, readySeen,
                   probeCompleted, outcome>>
    /\ UNCHANGED schedVars
    /\ UNCHANGED lockVars

Caller(c) ==
    \/ is_ready(c)
    \/ destroy(c)
    \/ destroy_clear(c)
    \/ get_fastest_provider(c)
    \/ wait_until_ready(c)
    \/ WaitWake(c)

Next ==
    \/ process_response_time_check
    \/ \E c \in Callers : Caller(c)
    \/ DropSelector

Spec == Init /\ [][Next]_vars

\* The steps of the task that wait for nothing: the sweep is polled and sends
\* a request, or goes on from a completed request to the insert and from
\* there to the next url.
TaskRuns ==
    \/ SweepPending
    \/ ResponseAtOnce
    \/ SweepEmpty
    \/ SweepProbe

\* The callers and the task share the one thread of a current_thread runtime
\* (the runtime of #[tokio::test]): a caller runs, and the selector is
\* dropped, only while the task is not running.
CurrentThreadNext ==
    \/ process_response_time_check
    \/ TaskYielded /\ \E c \in Callers : Caller(c)
    \/ TaskYielded /\ DropSelector

\* The runtime gets the thread back whenever the task returns Pending or
\* ends, and then wakes a caller whose sleep is over; the task runs when it
\* can, and a request that is left in flight completes.
CurrentThreadSpec ==
    /\ Init
    /\ [][CurrentThreadNext]_vars
    /\ \A c \in Callers : SF_vars(TaskYielded /\ WaitWake(c))
    /\ WF_vars(TaskRuns)
    /\ WF_vars(ResponseArrives)

\* select! draws its first branch at random at every poll, so changed(), which
\* stays ready once something was sent, wins one of the polls that look at
\* the branches.
StopSpec == Spec /\ SF_vars(PollChanged) /\ WF_vars(TaskRuns)

\* The task runs when it can, and a request that is left in flight
\* completes, with a response or with an error.
SweepSpec == Spec /\ WF_vars(TaskRuns) /\ WF_vars(ResponseArrives)

\* ------------------------------------------------ the lock, step by step
\*
\* The same program with every lock(), every use of the guard and every drop
\* of the guard as a step of its own, so that a thread of the runtime (the
\* task) and the callers' threads interleave inside the calls.

\* The variables of the callers that only the call-by-call actions above
\* use.  What a call gives is here what its last step reads: IsReadyValue in
\* ReadLen, ScanResult in ScanStep.
callVars == <<cpc, last, usage>>

LockWithoutWaiting(who) == mutex' = who

\* Mutex::lock(): blocks until no guard is alive, then gives a guard.  It gives
\* one on a poisoned mutex too, inside the Err that unwrap() panics on.
Lock(who) ==
    /\ mutex = "free"
    /\ mutex' = who

\* The guard is dropped: at the end of the statement, by drop(), or when a
\* panic unwinds.
Unlock == mutex' = "free"

\* let mut response_times_map = response_times.lock()...
TaskLock ==
    /\ tpc = "lock"
    /\ Lock("task")
    /\ tpc' = "insert"
    /\ UNCHANGED <<urls, table, poisoned, stopSentBy, pending, lpc, scan,
                   probeCompleted, outcome, readySeen>>
    /\ UNCHANGED schedVars
    /\ UNCHANGED callVars

\* ...unwrap(); response_times_map.insert(url.clone(), response_time).  The
\* unwrap() of a poisoned mutex panics and the task ends, its guard dropped.
TaskInsert ==
    /\ tpc = "insert"
    /\ IF poisoned
       THEN /\ task' = "Panicked"
            /\ sweepPos' = 0
            /\ inflight' = {}
            /\ tpc' = "await"
            /\ pending' = 0
            /\ Unlock
            /\ UNCHANGED table
       ELSE /\ table' = Insert(table, urls[sweepPos + 1], pending)
            /\ tpc' = "drop"
            /\ UNCHANGED <<mutex, task, sweepPos, inflight, pending>>
    /\ UNCHANGED <<urls, poisoned, stopSentBy, lpc, scan, probeCompleted,
                   outcome, readySeen>>
    /\ UNCHANGED callVars

TaskKeepsGuard ==
    /\ tpc = "drop"
    /\ tpc' = "await"
    /\ IF sweepPos + 1 = Len(urls)
       THEN NextCycle
       ELSE /\ sweepPos' = sweepPos + 1
            /\ UNCHANGED <<task, inflight>>
    /\ pending' = 0
    /\ UNCHANGED <<urls, table, poisoned, stopSentBy, lpc, scan, mutex,
                   probeCompleted, outcome, readySeen>>
    /\ UNCHANGED callVars

\* drop(response_times_map), and the for loop goes on (response_time is out
\* of scope) to the next url, or the sweep is over and the loop starts the
\* next select!.
TaskDrop ==
    /\ tpc = "drop"
    /\ Unlock
    /\ tpc' = "await"
    /\ IF sweepPos + 1 = Len(urls)
       THEN NextCycle
       ELSE /\ sweepPos' = sweepPos + 1
            /\ UNCHANGED <<task, inflight>>
    /\ pending' = 0
    /\ UNCHANGED <<urls, table, poisoned, stopSentBy, lpc, scan, probeCompleted,
                   outcome, readySeen>>
    /\ UNCHANGED callVars

\* Where a caller waits for the lock, and where it goes with the guard.
LockPlaces == {"is_ready.lock", "wait.lock", "gfp.lock", "destroy.lock"}
Locked(place) ==
    IF place = "is_ready.lock" THEN "is_ready.len"
    ELSE IF place = "wait.lock" THEN "wait.len"
    ELSE IF place = "gfp.lock" THEN "gfp.scan"
    ELSE "destroy.clear"

\* A caller calls is_ready, get_fastest_provider or wait_until_ready.
Call(c) ==
    /\ cpc[c] = "idle"
    /\ lpc[c] = "idle"
    /\ \E place \in {"is_ready.lock", "wait.lock", "gfp.lock"} :
         lpc' = [lpc EXCEPT ![c] = place]
    /\ UNCHANGED <<urls, table, poisoned, stopSentBy, mutex, tpc, pending,
                   scan, probeCompleted, outcome, readySeen>>
    /\ UNCHANGED schedVars
    /\ UNCHANGED callVars

\* A caller calls destroy: interval_handle.send(()).expect(..), which panics
\* when the task has dropped its receiver.
CallDestroy(c) ==
    /\ cpc[c] = "idle"
    /\ lpc[c] = "idle"
    /\ IF ReceiverAlive
       THEN /\ stopSentBy' = stopSentBy \cup {c}
            /\ lpc' = [lpc EXCEPT ![c] = "destroy.lock"]
            /\ readySeen' = FALSE
            /\ probeCompleted' = FALSE
            /\ outcome' = EmptyMap
       ELSE UNCHANGED <<stopSentBy, lpc, readySeen, probeCompleted, outcome>>
    /\ UNCHANGED <<urls, table, poisoned, mutex, tpc, pending, scan>>
    /\ UNCHANGED schedVars
    /\ UNCHANGED callVars

\* self.current_response_time_per_url.lock() of a caller; for
\* get_fastest_provider, binding.iter() then fixes the order of the scan.
CallerLock(c) ==
    /\ lpc[c] \in LockPlaces
    /\ Lock(c)
    /\ lpc' = [lpc EXCEPT ![c] = Locked(lpc[c])]
    /\ IF lpc[c] = "gfp.lock"
       THEN \E order \in IterOrders(table) :
              scan' = [scan EXCEPT ![c] = [order |-> order, i |-> 1,
                                           best |-> "", bestv |-> 0]]
       ELSE UNCHANGED scan
    /\ UNCHANGED <<urls, table, poisoned, stopSentBy, tpc, pending,
                   probeCompleted, outcome, readySeen>>
    /\ UNCHANGED schedVars
    /\ UNCHANGED callVars

\* ...unwrap().len() > 0 of is_ready, in a call of is_ready or in a turn of
\* the loop of wait_until_ready, which sleeps when it is false.
ReadLen(c) ==
    /\ lpc[c] \in {"is_ready.len", "wait.len"}
    /\ Unlock
    /\ lpc' = [lpc EXCEPT ![c] =
                 IF lpc[c] = "wait.len" /\ IsReadyValue = "false"
                 THEN "wait.sleep" ELSE "idle"]
    /\ readySeen' = (~stopSent /\ (readySeen \/ IsReadyValue = "true"))
    /\ UNCHANGED <<urls, table, poisoned, stopSentBy, tpc, pending, scan,
                   probeCompleted, outcome>>
    /\ UNCHANGED schedVars
    /\ UNCHANGED callVars

\* sleep(Duration::from_millis(10)).await is over.
SleepOver(c) ==
    /\ lpc[c] = "wait.sleep"
    /\ lpc' = [lpc EXCEPT ![c] = "wait.lock"]
    /\ UNCHANGED <<urls, table, poisoned, stopSentBy, mutex, tpc, pending,
                   scan, probeCompleted, outcome, readySeen>>
    /\ UNCHANGED schedVars
    /\ UNCHANGED callVars

\* What the scan of caller c gives when it is over.
ScanResult(c) ==
    IF poisoned \/ Len(scan[c].order) = 0 THEN "panic" ELSE scan[c].best

\* ...unwrap() and binding.iter().min_by_key(..).unwrap() of
\* get_fastest_provider, one entry of the map at a time: the first entry, then
\* every entry strictly smaller than the smallest so far; at the end the key
\* is returned, or unwrap() of None panics with the guard alive.
ScanStep(c) ==
    LET sc == scan[c]
    IN  /\ lpc[c] = "gfp.scan"
        /\ IF ~poisoned /\ sc.i <= Len(sc.order)
           THEN /\ scan' = [scan EXCEPT ![c] =
                     IF sc.i = 1 \/ table[sc.order[sc.i]] < sc.bestv
                     THEN [sc EXCEPT !.i = sc.i + 1, !.best = sc.order[sc.i],
                                     !.bestv = table[sc.order[sc.i]]]
                     ELSE [sc EXCEPT !.i = sc.i + 1]]
                /\ UNCHANGED <<lpc, mutex, poisoned>>
           ELSE /\ poisoned' = (poisoned \/ Len(sc.order) = 0)
                /\ lpc' = [lpc EXCEPT ![c] = "idle"]
                /\ scan' = [scan EXCEPT ![c] = NoScan]
                /\ Unlock
        /\ UNCHANGED <<urls, table, stopSentBy, tpc, pending, probeCompleted,
                       outcome, readySeen>>
        /\ UNCHANGED schedVars
        /\ UNCHANGED callVars

\* ...unwrap().clear() of destroy.
ClearLocked(c) ==
    /\ lpc[c] = "destroy.clear"
    /\ Unlock
    /\ lpc' = [lpc EXCEPT ![c] = "idle"]
    /\ table' = IF poisoned THEN table ELSE Clear(table)
    /\ UNCHANGED <<urls, poisoned, stopSentBy, tpc, pending, scan,
                   probeCompleted, outcome, readySeen>>
    /\ UNCHANGED schedVars
    /\ UNCHANGED callVars

LockNext ==
    \/ PollChanged
    \/ SweepPending
    \/ ResponseArrives
    \/ ResponseAtOnce
    \/ SweepEmpty
    \/ SleepElapsed
    \/ TaskLock
    \/ TaskInsert
    \/ TaskDrop
    \/ \E c \in Callers :
         \/ Call(c)
         \/ CallDestroy(c)
         \/ CallerLock(c)
         \/ ReadLen(c)
         \/ SleepOver(c)
         \/ ScanStep(c)
         \/ ClearLocked(c)
    \/ DropSelector

LockSpec == Init /\ [][LockNext]_vars

\* The next step of whoever holds the guard: none of them is an .await.
GuardedStep ==
    \/ TaskInsert
    \/ TaskDrop
    \/ \E c \in Callers : ReadLen(c) \/ ScanStep(c) \/ ClearLocked(c)

\* A thread that holds the guard goes on, and a thread whose lock() finds
\* the mutex free, and free for as long as it looks, gets it.  Nothing more:
\* std::sync::Mutex promises no order among the threads that wait for it.
LockLiveSpec ==
    /\ LockSpec
    /\ WF_vars(GuardedStep)
    /\ WF_vars(TaskLock)
    /\ \A c \in Callers : WF_vars(CallerLock(c))


\* ------------------------------------------------------------ properties

\* No destroy() call is between its send and its clear.
NoClearing == \A c \in Callers : cpc[c] # "clearing"

\* Some destroy() call has sent the stop signal, cleared the map and returned.
DestroyReturned == stopSent /\ NoClearing /\ ~poisoned

\* The keys get_fastest_provider can return for the map as it is.
Fastest == {MinByKey(order, table) : order \in IterOrders(table)}

\* A call of get_fastest_provider has returned key k.
GotKey(k) == last = [op |-> "get_fastest_provider", val |-> k]

\* C1: once destroy() has returned and the task has reacted to the stop signal,
\* the table holds no entry and is_ready() is false, for good.
C1_DestroyLeavesTableEmpty ==
    (DestroyReturned /\ task = "Stopped")
        => (MapLen(table) = 0 /\ IsReadyValue = "false")

\* C2: every destroy() call made after a destroy() call has sent the stop
\* signal and returned panics.
C2_SecondDestroyPanics ==
    [][\A c \in Callers :
         (stopSent /\ NoClearing /\ destroy(c))
             => last' = [op |-> "destroy", val |-> "panic"]]_vars

\* What the code does: a destroy() call made after the stop signal was sent
\* panics at the send when the task has ended and dropped its receiver, and
\* otherwise sends again and goes on to its clear of the map.
SecondDestroyPanicsOnceTaskEnded ==
    [][\A c \in Callers :
         (stopSent /\ destroy(c))
             => IF task \in {"Stopped", "Panicked"}
                THEN /\ last' = [op |-> "destroy", val |-> "panic"]
                     /\ cpc'[c] = "idle"
                     /\ table' = table
                ELSE cpc'[c] = "clearing"]_vars

\* A later destroy() has panicked at the send, the task having returned.
SecondDestroyPanicked ==
    /\ last = [op |-> "destroy", val |-> "panic"]
    /\ task = "Stopped"
    /\ cpc = [c \in Callers |-> "idle"]
    /\ ~poisoned

\* C3: get_fastest_provider() on an empty table panics, returns no endpoint
\* and leaves the table as it was.
C3_EmptyTablePanics ==
    [][\A c \in Callers :
         (MapLen(table) = 0 /\ get_fastest_provider(c))
             => /\ last' = [op |-> "get_fastest_provider", val |-> "panic"]
                /\ table' = table]_vars

C3_Witness ==
    /\ last = [op |-> "get_fastest_provider", val |-> "panic"]
    /\ stopSent
    /\ MapLen(table) = 0

\* C4: on a table that is not empty get_fastest_provider() returns a key of
\* the table whose value is at most the value of every key.
C4_SelectionCorrectness ==
    MapLen(table) > 0 =>
        \A f \in Fastest :
            /\ f.some
            /\ f.key \in DOMAIN table
            /\ \A k \in DOMAIN table : table[f.key] <= table[k]

C4_Witness ==
    \E a, b \in DOMAIN table : table[a] < table[b] /\ GotKey(a)

\* Url u is one of the configured urls.
Configured(u) == \E i \in 1..Len(urls) : urls[i] = u

\* C5: with an endpoint that is always down and one that is always up among
\* the configured urls, get_fastest_provider() never returns the one that is
\* down once the selector is ready.
C5_NeverTheUnreachable ==
    (Configured("down") /\ Configured("up") /\ MapLen(table) > 0)
        => \A f \in Fastest : f.key # "down"

\* C5, amended: get_fastest_provider() never returns the endpoint that is
\* always down while the table has an entry for an endpoint that is always up.
C5_NeverTheUnreachableOnceUpRecorded ==
    "up" \in DOMAIN table => \A f \in Fastest : f.key # "down"

C5_Witness ==
    /\ "up" \in DOMAIN table
    /\ "down" \in DOMAIN table
    /\ GotKey("up")

\* C6: get_fastest_provider() returns a key that holds u128::MAX only when
\* every key of the table holds u128::MAX.
C6_SentinelDominance ==
    \A f \in Fastest :
        (f.some /\ table[f.key] = U128_MAX)
            => \A k \in DOMAIN table : table[k] = U128_MAX

C6_Witness ==
    \E a, b \in DOMAIN table :
        /\ table[a] < U128_MAX
        /\ table[b] = U128_MAX
        /\ GotKey(a)

\* C7: once is_ready() has returned true it returns true until destroy() is
\* called, and no step of the task takes a key out of the table.
C7_ReadinessMonotone ==
    /\ [](readySeen => IsReadyValue = "true")
    /\ [][process_response_time_check
            => \A k \in DOMAIN table : k \in DOMAIN table']_vars

C7_Witness ==
    /\ readySeen
    /\ last = [op |-> "is_ready", val |-> "true"]
    /\ \E k \in DOMAIN table : table[k] = U128_MAX
    /\ \E k \in DOMAIN table : table[k] < U128_MAX

\* C8: before destroy() is called, the table is empty, and is_ready() is not
\* true, if and only if no request has completed since init.
C8_EmptyUntilFirstProbe ==
    ~stopSent =>
        /\ MapLen(table) = 0 <=> ~probeCompleted
        /\ IsReadyValue = "true" <=> probeCompleted

\* On a mutex that is not poisoned it is so, but for the moment between the
\* completion of the first request and the insert of its result.
EmptyUntilFirstInsertUnlessPoisoned ==
    (~stopSent /\ ~poisoned /\ ~(tpc = "lock" /\ MapLen(table) = 0)) =>
        /\ MapLen(table) = 0 <=> ~probeCompleted
        /\ IsReadyValue = "true" <=> probeCompleted

\* C9: a caller that keeps the usage contract sees none of its calls panic.
C9_ContractKeeperNeverFaults == usage # "faulted"

\* What the code does: a caller that keeps the usage contract sees none of
\* its calls panic as long as no other caller has called destroy() and no call
\* of get_fastest_provider() has poisoned the mutex; its
\* get_fastest_provider() returns a configured url.
ContractKeeperNeverFaultsAlone ==
    [][(stopSentBy \subseteq {Observed} /\ ~poisoned)
          => /\ usage' # "faulted"
             /\ (get_fastest_provider(Observed)
                    /\ usage \in {"ready", "torn_ready"})
                    => Configured(last'.val)]_vars

\* The observed caller has kept the contract, got an endpoint when every
\* recorded endpoint was down, and nobody else has torn the selector down.
ContractKeeperGotDownEndpoint ==
    /\ usage \in {"ready", "torn_ready"}
    /\ stopSentBy \subseteq {Observed}
    /\ \E k \in DOMAIN table : GotKey(k)
    /\ \A k \in DOMAIN table : table[k] = U128_MAX

\* C10: wait_until_ready() returns only when it sees a table that is not
\* empty, does not return while the table is empty, and, once the table is not
\* empty, returns unless destroy() is called.
C10_WaitReturnsWhenReady ==
    /\ [][\A c \in Callers :
            ((wait_until_ready(c) \/ WaitWake(c)) /\ cpc'[c] = "idle")
                => \/ MapLen(table) > 0
                   \/ last' = [op |-> "wait_until_ready", val |-> "panic"]]_vars
    /\ \A c \in Callers :
          (cpc[c] = "waiting" /\ MapLen(table) > 0)
              ~> (cpc[c] = "idle" \/ stopSent)

\* A caller that had to sleep in wait_until_ready has returned from it.
C10_Witness ==
    /\ last = [op |-> "wait_until_ready", val |-> "ok"]
    /\ usage = "ready"
    /\ cpc[Observed] = "idle"
    /\ ~stopSent

\* C11: once destroy() has sent the stop signal the task reaches Stopped,
\* whatever it was doing and whether or not a request ever completes.
C11_StopSignalStopsTask == stopSent ~> (task = "Stopped")

\* After the stop signal the task ends: it returns, or it panics on the
\* poisoned mutex.
TaskEndsAfterStop == stopSent ~> (task \in {"Stopped", "Panicked"})

\* C12: once the task is Stopped it stays Stopped, has no request in flight
\* and sends none, and every change of the table is the clear of a destroy()
\* call.
C12_StoppedTaskIsSilent ==
    /\ [](task = "Stopped" => inflight = {})
    /\ [][task = "Stopped"
            => /\ task' = "Stopped"
               /\ inflight' = {}
               /\ sweepPos' = sweepPos
               /\ table' # table
                    => /\ table' = Clear(table)
                       /\ \E c \in Callers :
                            cpc[c] = "clearing" /\ cpc'[c] = "idle"]_vars

\* The task has stopped on a table that a late insert filled, and a destroy()
\* call that has sent its signal is about to clear it.
C12_Witness ==
    /\ task = "Stopped"
    /\ MapLen(table) > 0
    /\ \E c \in Callers : cpc[c] = "clearing"

\* Every configured url has an entry in the table.
AllRecorded == \A i \in 1..Len(urls) : urls[i] \in DOMAIN table

\* C13: if destroy() is never called (and the selector is not dropped) and
\* the requests complete, every configured url gets an entry in the table,
\* however the interval relates to the time a sweep takes.
C13_EveryEndpointRecorded == <>(Changed \/ AllRecorded)

\* While the task runs and destroy() is not called, every configured url gets
\* an entry in the table unless the interval keeps elapsing, which ends the
\* cycle and drops the sweep with its request.
EveryEndpointRecordedUnlessCut ==
    \/ []<><<SleepElapsed>>_vars
    \/ <>(Changed \/ task # "Running" \/ AllRecorded)

\* A sweep sends its requests in the order of the configured list, the
\* request to a url once the results of the urls before it are written and
\* no sooner; so, until destroy() is called, the urls the sweep has passed
\* all have an entry.
SweepInOrder ==
    /\ []((~stopSent /\ task = "Running")
            => \A i \in 1..sweepPos : urls[i] \in DOMAIN table)
    /\ [][\A p \in inflight' \ inflight :
             p = sweepPos + 1 /\ sweepPos' = sweepPos /\ tpc # "lock"]_vars
    /\ [][sweepPos' \in {0, sweepPos, sweepPos + 1}]_vars
    /\ [][SleepElapsed => sweepPos' = 0]_vars

\* C14: a sweep sends its requests in the order of the configured list, and
\* the step of the task that follows the completion of a request writes its
\* result to the table, before the next request is sent.
C14_SweepWritesInOrder ==
    /\ SweepInOrder
    /\ [][SweepProbe => urls[sweepPos + 1] \in DOMAIN table']_vars

\* A reader has seen a table that holds the first of two configured urls
\* only, while the request to the second is in flight.
PrefixObserved ==
    /\ Len(urls) = 2
    /\ DOMAIN table = {urls[1]}
    /\ urls[2] # urls[1]
    /\ sweepPos = 1
    /\ inflight = {2}
    /\ ~stopSent
    /\ GotKey(urls[1])

\* C15: at most one request is in flight, the one of the url the sweep is at;
\* the end of a cycle, by the interval or by the stop signal, leaves no
\* request in flight; and a result is written to the table with no request
\* in flight: its own has completed, the next is not sent yet.
C15_OneProbeInFlight ==
    /\ [](Cardinality(inflight) <= 1 /\ inflight \subseteq {sweepPos + 1})
    /\ [][(SleepElapsed \/ PollChanged) => inflight' = {}]_vars
    /\ [][(table' # table /\ table' # EmptyMap)
            => (tpc = "lock" /\ inflight = {} /\ inflight' = {})]_vars

\* The interval has cut a sweep that had recorded the first of two urls and
\* dropped its request to the second; the next cycle has sent its first
\* request.
C15_Witness ==
    /\ Len(urls) = 2
    /\ urls[2] # urls[1]
    /\ DOMAIN table = {urls[1]}
    /\ ~stopSent
    /\ sweepPos = 0
    /\ inflight = {1}

\* C16: the step of the task after a request to the endpoint that is down
\* has completed records u128::MAX for it, leaves the task running and
\* changes nothing a caller sees.
C16_FailedProbeKeepsRunning ==
    [][(SweepProbe /\ urls[sweepPos + 1] = "down")
          => /\ task' = "Running"
             /\ "down" \in DOMAIN table'
             /\ table'["down"] = U128_MAX
             /\ UNCHANGED callerVars]_vars

\* On a mutex that is not poisoned it does, and the sweep goes on with the
\* next url or the next cycle.
FailedProbeIsRecorded ==
    [][(SweepProbe /\ urls[sweepPos + 1] = "down" /\ ~poisoned)
          => /\ task' = "Running"
             /\ table' = Insert(table, "down", U128_MAX)
             /\ sweepPos' = (sweepPos + 1) % Len(urls)
             /\ UNCHANGED callerVars]_vars

\* C17: until destroy() is called the table holds, for each url, what the
\* last completed request to that url gave, and nothing for a url no request
\* to which has completed.
C17_TableIsLastOutcome ==
    ~stopSent =>
        /\ DOMAIN table = DOMAIN outcome
        /\ \A u \in DOMAIN table : table[u] = outcome[u]

\* On a mutex that is not poisoned it does, but for the result of a request
\* that has completed and is not inserted yet.
TableIsLastOutcomeUnlessPoisoned ==
    (~stopSent /\ ~poisoned) =>
        outcome = IF tpc = "lock"
                  THEN Insert(table, urls[sweepPos + 1], pending)
                  ELSE table

\* C19: the keys of the table are configured urls, the table has at most as
\* many entries as there are different configured urls, and no step changes
\* the list of configured urls.
C19_KeysAreConfigured ==
    /\ [](\A k \in DOMAIN table : Configured(k))
    /\ [](MapLen(table) <= Cardinality({urls[i] : i \in 1..Len(urls)}))
    /\ [][urls' = urls]_vars

\* A list that names one url twice has been swept: the table has one entry
\* for the two places, the first request of the next sweep is in flight, and
\* a reader got the one key of the table.
C19_Witness ==
    /\ Len(urls) = 2
    /\ urls[1] = urls[2]
    /\ MapLen(table) = 1
    /\ sweepPos = 0
    /\ inflight = {1}
    /\ GotKey(urls[2])

\* A caller is using its guard.
Guarded(c) == lpc[c] \in {"is_ready.len", "wait.len", "gfp.scan", "destroy.clear"}

\* C18: every write of the table (the insert of one probe result, the clear of
\* destroy) is atomic with respect to is_ready and get_fastest_provider running
\* at the same time: a caller reads the table, and the task and destroy write
\* it, only with the lock their own; the table does not change while a caller
\* is between its lock() and its return; and the key get_fastest_provider
\* returns is the arg-min of that table, in one of its iteration orders.
C18_TableWritesAtomic ==
    /\ [](\A c \in Callers : Guarded(c) => mutex = c)
    /\ [](tpc \in {"insert", "drop"} => mutex = "task")
    /\ [][\A c \in Callers :
            (Guarded(c) /\ lpc'[c] = lpc[c]) => table' = table]_vars
    /\ [][\A c \in Callers :
            (lpc[c] = "gfp.scan" /\ lpc'[c] = "idle" /\ ScanResult(c) # "panic")
            => SomeKey(ScanResult(c)) \in Fastest]_vars

\* A caller is in the middle of its scan of two entries while the task waits
\* for the lock with a response_time below the smallest the scan has seen.
C18_Witness ==
    \E c \in Callers :
      /\ lpc[c] = "gfp.scan"
      /\ MapLen(table) = 2
      /\ scan[c].i = 2
      /\ tpc = "lock"
      /\ pending < scan[c].bestv

\* C20: the lock is never held across a suspension point: the task holds it
\* only from its lock() to its drop(), not at an .await (a request in flight,
\* the timer, the stop signal), and a caller only inside one is_ready,
\* get_fastest_provider or clear, not while it sleeps or is outside a call; and
\* every lock() of the task and of a caller is granted in the end.
C20_LockNeverHeldAcrossAwait ==
    /\ [](mutex = "task" <=> tpc \in {"insert", "drop"})
    /\ [](\A c \in Callers : mutex = c <=> Guarded(c))
    /\ (tpc = "lock") ~> (mutex = "task")
    /\ \A c \in Callers : (lpc[c] \in LockPlaces) ~> (mutex = c)

\* Some thread is in lock().
LockRequested == tpc = "lock" \/ \E c \in Callers : lpc[c] \in LockPlaces

\* C20, amended: the lock is never held across a suspension point, as above;
\* whoever holds it gives it back, and while lock() calls wait one of them is
\* granted, so there is no deadlock.  Which one is not said: a lock() may be
\* overtaken by the others for ever.
C20_LockFreedAndGrantedToSomeone ==
    /\ [](mutex = "task" <=> tpc \in {"insert", "drop"})
    /\ [](\A c \in Callers : mutex = c <=> Guarded(c))
    /\ (mutex # "free") ~> (mutex = "free")
    /\ (LockRequested /\ mutex = "free") ~> (mutex # "free")

\* The task holds the lock and both callers wait for it.
C20_Witness ==
    /\ tpc = "drop"
    /\ mutex = "task"
    /\ \A c \in Callers : lpc[c] \in LockPlaces

====
